---- MODULE Spec2Model ----
(***************************************************************************)
(* A model of the two data-extraction scripts of fynalist_v1:              *)
(*   extract_data.py              the static variant (fixed id lists)      *)
(*   extract_all_transactions.py  the discovery variant (scan + fetch)     *)
(*                                                                         *)
(* Representation.  A string the code inspects piecewise (a file name, a   *)
(* plan key, a URL path) is a sequence of units: a unit is one reserved    *)
(* character (":", "/", "%", " ") or a run of other characters that the    *)
(* code never splits.  A JSON value is a record carrying exactly what the  *)
(* code looks at: its Python type, its size (truthiness), its plan         *)
(* entries and the string members the regex scan can match.  A text (an    *)
(* HTTP body, a file's content) is an encoding plus the value it encodes.  *)
(***************************************************************************)
EXTENDS Integers, Sequences, FiniteSets, TLC

VARIABLES
    files,      \* the data directory: path -> text, for the files that exist
    script,     \* the script of the current or the last run: none, discovery, static
    pc,         \* position of the running script; "idle" when none runs
    exit,       \* how the last run ended: none, ok, killed, crash
    runs,       \* number of runs started so far
    tx_ids,     \* discovery: result of find_all_transaction_ids
    existing,   \* discovery: stems found in TX_DIR
    missing,    \* discovery: the work set
    queue,      \* identifiers the running loop has not attempted yet, in order
    data,       \* the value the last fetch_json returned
    resp,       \* what curl gave for the last request
    success,    \* discovery: counter
    failed,     \* discovery: counter
    mi,         \* static: index into MERCHANT_IDS
    planq,      \* static: plan entries of the current merchant not yet visited
    requests,   \* URL paths requested by the current run, in order
    written,    \* history: paths written by the current run, in order
    atStart,    \* history: the files as the current run found them
    failedIds,  \* history: identifiers whose primary fetch failed in the run
    prev,       \* history: summary of the run before the current one
    allOk,      \* history: every request so far was answered 200 with its document
    staticRuns  \* history: number of runs of the static script so far

vars == <<files, script, pc, exit, runs, tx_ids, existing, missing, queue, data,
          resp, success, failed, mi, planq, requests, written, atStart,
          failedIds, prev, allOk, staticRuns>>

-----------------------------------------------------------------------------
(* Bounds of the model *)

\* runs of the scripts in one behaviour
MaxRuns == 2

\* runs of the static script among them
MaxStaticRuns == 1

-----------------------------------------------------------------------------
(* Identifiers *)

T1 == "dd129486-0b41-4b60-b023-b84834eb88d1"
T2 == "dd120776-d050-44ad-a807-0881ec66b25c"
T3 == "dd12603e-30b4-4893-b057-d1424ce10003"

\* the head of the literal list of extract_data.py
TRANSACTION_IDS == <<T1, T2>>

\* the strings of the model that have the shape [a-f0-9-]{36}
TxIdShaped == {T1, T2, T3}

\* Python's string order on the identifiers of the model, ascending
IdOrder == <<T2, T3, T1>>

Range(s) == {s[i] : i \in DOMAIN s}

RECURSIVE JoinStr(_)
\* the string a sequence of units stands for
JoinStr(us) == IF us = <<>> THEN "" ELSE Head(us) \o JoinStr(Tail(us))

-----------------------------------------------------------------------------
(* JSON values and texts *)

Member(k, v) == [key |-> k, val |-> v]

None == [type |-> "None", size |-> 0, members |-> <<>>, items |-> <<>>]

Dict(n, ms) == [type |-> "dict", size |-> n, members |-> ms, items |-> <<>>]

List(its, ms) == [type |-> "list", size |-> Len(its), members |-> ms, items |-> its]

Number(n) == [type |-> "int", size |-> n, members |-> <<>>, items |-> <<>>]

\* Python truthiness of a decoded JSON value: `if data:`
Truthy(v) == v.type # "None" /\ v.size # 0

Text(e, v) == [enc |-> e, val |-> v]

\* what open(path, "w") leaves before json.dump has written anything
Truncated == Text("empty", None)

\* json.loads raises on anything that is not a JSON text
JsonDecodable(t) == t.enc \in {"compact", "pretty"}

\* json.loads of a JSON text; the JSON text null decodes to None
json_loads(t) == t.val

\* json.dump(data, f, indent=2, ensure_ascii=False)
json_dump(v) == Text("pretty", v)

\* Path.read_text(encoding="utf-8") raises on bytes that are not UTF-8
ReadRaises(t) == t.enc = "binary"

-----------------------------------------------------------------------------
(* Paths under DATA_DIR *)

\* Path(__file__).parent / "data", relative to the directory of the script
DATA_DIR == <<"data">>
TX_DIR == <<"transactions">>
WHY_DIR == <<"transactions", "why">>

File(d, s, e) == [dir |-> d, stem |-> s, ext |-> e]

TxFile(id) == File(TX_DIR, <<id>>, ".json")
WhyFile(id) == File(WHY_DIR, <<id>>, ".json")

\* str(path), as units
PathStr(p) == DATA_DIR \o p.dir \o p.stem \o <<p.ext>>

\* `"transactions" in str(json_file)`
SkippedByScan(p) == \E i \in DOMAIN PathStr(p) : PathStr(p)[i] = "transactions"

\* DATA_DIR.rglob("*.json")
RglobJson(fs) == {p \in DOMAIN fs : p.ext = ".json"}

\* the directory entries of TX_DIR: its files, and the why directory main() created
TxDirEntries(fs) == {p \in DOMAIN fs : p.dir = TX_DIR} \cup {File(TX_DIR, <<"why">>, "")}

\* TX_DIR.glob("*.json")
GlobTxJson(fs) == {p \in TxDirEntries(fs) : p.ext = ".json"}

\* pattern.findall(content): the 36-character values of transaction_id members
FindAll(t) ==
    LET hit(m) == m.key = "transaction_id" /\ m.val \in TxIdShaped
        ms == SelectSeq(t.val.members, hit)
    IN [i \in DOMAIN ms |-> ms[i].val]

find_all_transaction_ids(fs) ==
    UNION {IF SkippedByScan(p) \/ ReadRaises(fs[p]) THEN {} ELSE Range(FindAll(fs[p]))
           : p \in RglobJson(fs)}

\* Existing, had main() globbed the why directory instead of TX_DIR
ExistingInWhyDir(fs) == {JoinStr(f.stem) : f \in {g \in DOMAIN fs : g.dir = WHY_DIR /\ g.ext = ".json"}}

\* the stems main() collects from TX_DIR
Existing(fs) == {JoinStr(f.stem) : f \in {g \in GlobTxJson(fs) : JoinStr(g.stem) \o g.ext # "why"}}

\* sorted(ids)
Sorted(ids) == SelectSeq(IdOrder, LAMBDA t : t \in ids)

Write(fs, p, t) == [q \in DOMAIN fs \cup {p} |-> IF q = p THEN t ELSE fs[q]]

\* save_json(data, filepath)
save_json(fs, p, v) == Write(fs, p, json_dump(v))

-----------------------------------------------------------------------------
(* The API as curl sees it *)

Curl(rc, st, out) == [rc |-> rc, status |-> st, stdout |-> out]

NoBody == Text("empty", None)
HtmlBody == Text("garbage", None)

\* fetch_json: None unless curl exited 0 with a body that decodes
fetch_json(o) ==
    IF o.rc = 0 /\ o.stdout # NoBody
    THEN IF JsonDecodable(o.stdout) THEN json_loads(o.stdout) ELSE None
    ELSE None

TxDoc(id) == Dict(3, <<Member("transaction_id", id)>>)
WhyDoc(id) == Dict(2, <<Member("transaction_id", id)>>)
NotFoundDoc == Dict(1, <<Member("detail", "Not Found")>>)

TxUrl(id) == <<<<"transactions">>, <<id>>>>
WhyUrl(id) == <<<<"transactions">>, <<id>>, <<"why">>>>

\* the document the API serves at a transaction URL when it has one
ApiDoc(url) == IF Len(url) = 3 THEN WhyDoc(url[2][1]) ELSE TxDoc(url[2][1])

\* what a request may come back with: no connection, a time-out, an empty
\* body, a body that is not JSON, an error status with a JSON body, the
\* document, an empty JSON object
Outcomes(url) ==
    { Curl(7, 0, NoBody), Curl(28, 0, NoBody), Curl(0, 200, NoBody),
      Curl(0, 502, HtmlBody), Curl(0, 404, Text("compact", NotFoundDoc)),
      Curl(0, 200, Text("compact", ApiDoc(url))),
      Curl(0, 200, Text("compact", Dict(0, <<>>))) }

IsGood(url, o) == o = Curl(0, 200, Text("compact", ApiDoc(url)))

NoResp == Curl(0, 0, NoBody)

-----------------------------------------------------------------------------
(* Initial data directories *)

MerchantsJson == File(<<>>, <<"merchants">>, ".json")

\* a merchant of the merchants list: an object, no plan
MerchantEntry == [type |-> "dict", key_type |-> "None", key |-> <<>>]

MerchantsList == List(<<MerchantEntry, MerchantEntry>>,
                      <<Member("transaction_id", T1), Member("transaction_id", T2),
                        Member("transaction_id", T1)>>)

Summary(k, e, f) == [kind |-> k, exit |-> e, failed |-> f]

Idle(fs) ==
    /\ files = fs
    /\ script = "none" /\ pc = "idle" /\ exit = "none" /\ runs = 0
    /\ tx_ids = {} /\ existing = {} /\ missing = {} /\ queue = <<>>
    /\ data = None /\ resp = NoResp /\ success = 0 /\ failed = 0
    /\ mi = 0 /\ planq = <<>>
    /\ requests = <<>> /\ written = <<>> /\ atStart = fs /\ failedIds = {}
    /\ prev = Summary("none", "none", {}) /\ allOk = TRUE /\ staticRuns = 0

\* the documents a data directory holds before any transaction was extracted
MerchantDoc == Dict(4, <<>>)
PlansDoc == List(<<[type |-> "dict", key_type |-> "str",
                    key |-> <<"m", ":", "30", ":", "plan", "/", "v1">>]>>, <<>>)

SeedFiles ==
    {File(<<>>, <<"merchants">>, ".json")}
    \cup {File(<<d>>, <<m>>, ".json") :
             d \in {"merchants", "monthly", "plans", "stability"}, m \in {"30", "243"}}
    \cup {File(<<"plans", "details">>, <<"m", "_", "30", "_", "plan", "_", "v1">>, ".json")}

SeedDoc(p) ==
    IF p.dir = <<>> THEN MerchantsList
    ELSE IF p.dir = <<"plans">> THEN PlansDoc
    ELSE MerchantDoc

\* a data directory as a complete run of the static script's merchant part left it
Seeded == [p \in SeedFiles |-> json_dump(SeedDoc(p))]

Init == Idle(Seeded)

-----------------------------------------------------------------------------
(* extract_all_transactions.main *)

BeginRun(k) ==
    /\ pc = "idle" /\ runs < MaxRuns
    /\ script' = k /\ runs' = runs + 1
    /\ prev' = Summary(script, exit, failedIds)
    /\ atStart' = files
    /\ requests' = <<>> /\ written' = <<>> /\ failedIds' = {}
    /\ data' = None /\ resp' = NoResp /\ success' = 0 /\ failed' = 0

\* the next identifier, or the summary
Advance(q) == IF q = <<>> THEN "summary" ELSE "fetch_tx"

StartDiscovery ==
    /\ BeginRun("discovery")
    /\ tx_ids' = find_all_transaction_ids(files)
    /\ existing' = Existing(files)
    /\ missing' = tx_ids' \ existing'
    /\ queue' = Sorted(missing')
    /\ IF missing' = {}
       THEN pc' = "idle" /\ exit' = "ok"
       ELSE pc' = "fetch_tx" /\ exit' = "none"
    /\ UNCHANGED <<files, mi, planq, allOk, staticRuns>>

\* FetchTx, had main() fetched the why explanation whatever the primary fetch gave
FetchTxUngated ==
    /\ script = "discovery" /\ pc = "fetch_tx"
    /\ LET id == Head(queue) IN
       \E o \in Outcomes(TxUrl(id)) :
          /\ requests' = Append(requests, TxUrl(id))
          /\ resp' = o
          /\ data' = fetch_json(o)
          /\ allOk' = (allOk /\ IsGood(TxUrl(id), o))
          /\ IF Truthy(data')
             THEN /\ pc' = "save_tx"
                  /\ UNCHANGED <<failed, failedIds>>
             ELSE /\ failed' = failed + 1
                  /\ failedIds' = failedIds \cup {id}
                  /\ pc' = "fetch_why"
    /\ UNCHANGED <<files, script, exit, runs, tx_ids, existing, missing, success,
                   mi, planq, written, atStart, prev, staticRuns, queue>>

FetchTx ==
    /\ script = "discovery" /\ pc = "fetch_tx"
    /\ LET id == Head(queue) IN
       \E o \in Outcomes(TxUrl(id)) :
          /\ requests' = Append(requests, TxUrl(id))
          /\ resp' = o
          /\ data' = fetch_json(o)
          /\ allOk' = (allOk /\ IsGood(TxUrl(id), o))
          /\ IF Truthy(data')
             THEN /\ pc' = "save_tx"
                  /\ UNCHANGED <<queue, failed, failedIds>>
             ELSE /\ failed' = failed + 1
                  /\ failedIds' = failedIds \cup {id}
                  /\ queue' = Tail(queue)
                  /\ pc' = Advance(queue')
    /\ UNCHANGED <<files, script, exit, runs, tx_ids, existing, missing, success,
                   mi, planq, written, atStart, prev, staticRuns>>

\* SaveTx, had main() saved the transaction under WHY_DIR
SaveTxInWhyDir ==
    /\ script = "discovery" /\ pc = "save_tx"
    /\ files' = save_json(files, WhyFile(Head(queue)), data)
    /\ written' = Append(written, WhyFile(Head(queue)))
    /\ pc' = "fetch_why"
    /\ UNCHANGED <<script, exit, runs, tx_ids, existing, missing, queue, data, resp,
                   success, failed, mi, planq, requests, atStart, failedIds, prev, allOk,
                   staticRuns>>

SaveTx ==
    /\ script = "discovery" /\ pc = "save_tx"
    /\ files' = save_json(files, TxFile(Head(queue)), data)
    /\ written' = Append(written, TxFile(Head(queue)))
    /\ pc' = "fetch_why"
    /\ UNCHANGED <<script, exit, runs, tx_ids, existing, missing, queue, data, resp,
                   success, failed, mi, planq, requests, atStart, failedIds, prev, allOk,
                   staticRuns>>

FetchWhy ==
    /\ script = "discovery" /\ pc = "fetch_why"
    /\ LET id == Head(queue) IN
       \E o \in Outcomes(WhyUrl(id)) :
          /\ requests' = Append(requests, WhyUrl(id))
          /\ resp' = o
          /\ data' = fetch_json(o)
          /\ allOk' = (allOk /\ IsGood(WhyUrl(id), o))
          /\ IF Truthy(data')
             THEN /\ pc' = "save_why"
                  /\ UNCHANGED <<queue, success>>
             ELSE /\ success' = success + 1
                  /\ queue' = Tail(queue)
                  /\ pc' = Advance(queue')
    /\ UNCHANGED <<files, script, exit, runs, tx_ids, existing, missing, failed,
                   mi, planq, written, atStart, failedIds, prev, staticRuns>>

SaveWhy ==
    /\ script = "discovery" /\ pc = "save_why"
    /\ files' = save_json(files, WhyFile(Head(queue)), data)
    /\ written' = Append(written, WhyFile(Head(queue)))
    /\ success' = success + 1
    /\ queue' = Tail(queue)
    /\ pc' = Advance(queue')
    /\ UNCHANGED <<script, exit, runs, tx_ids, existing, missing, data, resp,
                   failed, mi, planq, requests, atStart, failedIds, prev, allOk,
                   staticRuns>>

Summarise ==
    /\ script = "discovery" /\ pc = "summary"
    /\ pc' = "idle" /\ exit' = "ok"
    /\ UNCHANGED <<files, script, runs, tx_ids, existing, missing, queue, data, resp,
                   success, failed, mi, planq, requests, written, atStart,
                   failedIds, prev, allOk, staticRuns>>

\* the file save_json is writing when the process is at a save step
SaveTarget == IF pc = "save_tx" THEN TxFile(Head(queue)) ELSE WhyFile(Head(queue))

\* external termination of a running discovery script; inside save_json the
\* file may already have been opened for writing, which creates or empties it
Kill ==
    /\ script = "discovery" /\ pc # "idle"
    /\ pc' = "idle" /\ exit' = "killed"
    /\ \/ UNCHANGED files
       \/ /\ pc \in {"save_tx", "save_why"}
          /\ files' = Write(files, SaveTarget, Truncated)
    /\ UNCHANGED <<script, runs, tx_ids, existing, missing, queue, data, resp,
                   success, failed, mi, planq, requests, written, atStart,
                   failedIds, prev, allOk, staticRuns>>

Next ==
    \/ StartDiscovery
    \/ FetchTx
    \/ SaveTx
    \/ FetchWhy
    \/ SaveWhy
    \/ Summarise
    \/ Kill

Spec == Init /\ [][Next]_vars

-----------------------------------------------------------------------------
(* Plan keys: urllib.parse.quote(plan_key, safe="") and the file-name rule *)

\* the units quote() does not leave alone: every character that is not a
\* letter, a digit or one of "_.-~"
Reserved == {":", "/", "%", " "}

\* the two hex digits of a reserved character
HexOf(c) == CASE c = ":" -> "3A" [] c = "/" -> "2F" [] c = "%" -> "25" [] c = " " -> "20"

RECURSIVE quoteKeepSlash(_)
\* quote, had the code called urllib.parse.quote(s) with its default safe="/"
quoteKeepSlash(s) ==
    IF s = <<>> THEN <<>>
    ELSE (IF Head(s) \in Reserved \ {"/"} THEN <<"%", HexOf(Head(s))>> ELSE <<Head(s)>>)
         \o quoteKeepSlash(Tail(s))

RECURSIVE quote(_)
\* urllib.parse.quote(s, safe="")
quote(s) ==
    IF s = <<>> THEN <<>>
    ELSE (IF Head(s) \in Reserved THEN <<"%", HexOf(Head(s))>> ELSE <<Head(s)>>)
         \o quote(Tail(s))

\* s.replace(old, new)
Replace(s, old, new) == [i \in DOMAIN s |-> IF s[i] = old THEN new ELSE s[i]]

\* plan_key.replace(":", "_").replace("/", "_")
safe_key(k) == Replace(Replace(k, ":", "_"), "/", "_")

-----------------------------------------------------------------------------
(* extract_data.py *)

\* the head of the literal list of extract_data.py, as the strings f"{id}" gives
MERCHANT_IDS == <<"30", "243">>

MerchantsUrl == <<<<"merchants">>>>
MerchantUrl(m) == <<<<"merchants">>, <<m>>>>
SubUrl(m, sub) == <<<<"merchants">>, <<m>>, <<sub>>>>
PlanUrl(m, k) == <<<<"merchants">>, <<m>>, <<"plans">>, quote(k)>>

MerchantFile(m) == File(<<"merchants">>, <<m>>, ".json")
SubFile(m, sub) == File(<<sub>>, <<m>>, ".json")
PlanFile(k) == File(<<"plans", "details">>, safe_key(k), ".json")

\* the entries a plan list may hold
PlanEntry(k) == [type |-> "dict", key_type |-> "str", key |-> k]
EntryNoKey == [type |-> "dict", key_type |-> "None", key |-> <<>>]
EntryNumKey == [type |-> "dict", key_type |-> "int", key |-> <<>>]
EntryStr == [type |-> "str", key_type |-> "None", key |-> <<>>]

PlanKey1 == <<"m", ":", "30", ":", "plan", "/", "v1">>

\* len(data) raises TypeError on a number
LenRaises(v) == v.type = "int"

\* what `for plan in data` yields: the items of a list, the keys of a dict
Iterate(v) == IF v.type = "dict" THEN [i \in 1..v.size |-> EntryStr] ELSE v.items

\* plan.get("plan_key") raises AttributeError unless plan is a dict
GetRaises(e) == e.type # "dict"

\* `if plan_key:` for the value plan.get returned
KeyTruthy(e) == (e.key_type = "str" /\ e.key # <<>>) \/ e.key_type = "int"

\* urllib.parse.quote raises TypeError on a value that is not a string
QuoteRaises(e) == e.key_type # "str"

\* the bodies GET /merchants/{id}/plans may carry with status 200 besides the
\* common one
PlanLists ==
    { List(<<EntryNoKey, PlanEntry(PlanKey1)>>, <<>>),
      List(<<EntryNumKey>>, <<>>),
      List(<<EntryStr>>, <<>>),
      Number(7) }

StaticDoc(url) ==
    IF url = MerchantsUrl THEN MerchantsList
    ELSE IF url[1] = <<"transactions">> THEN ApiDoc(url)
    ELSE IF Len(url) = 3 /\ url[3] = <<"plans">> THEN PlansDoc
    ELSE MerchantDoc

StaticOutcomes(url) ==
    { Curl(7, 0, NoBody), Curl(0, 200, Text("compact", StaticDoc(url))) }
    \cup (IF Len(url) = 3 /\ url[3] = <<"plans">>
          THEN {Curl(0, 200, Text("compact", v)) : v \in PlanLists}
               \cup {Curl(0, 404, Text("compact", NotFoundDoc))}
          ELSE {})

StaticVars == <<script, exit, runs, tx_ids, existing, missing, success, failed,
                atStart, failedIds, prev, staticRuns>>

\* data = fetch_json(url); if data: save_json(data, file)
FetchAndSave(url, file) ==
    \E o \in StaticOutcomes(url) :
       /\ requests' = Append(requests, url)
       /\ resp' = o
       /\ data' = fetch_json(o)
       /\ allOk' = (allOk /\ o = Curl(0, 200, Text("compact", StaticDoc(url))))
       /\ IF Truthy(data')
          THEN files' = save_json(files, file, data')
          ELSE UNCHANGED files
       /\ UNCHANGED written

StartStatic ==
    /\ BeginRun("static")
    /\ staticRuns < MaxStaticRuns
    /\ staticRuns' = staticRuns + 1
    /\ pc' = "merchants" /\ exit' = "none"
    /\ mi' = 1 /\ planq' = <<>> /\ queue' = TRANSACTION_IDS
    /\ UNCHANGED <<files, tx_ids, existing, missing, allOk>>

ExtractMerchants ==
    /\ script = "static" /\ pc = "merchants"
    /\ FetchAndSave(MerchantsUrl, MerchantsJson)
    /\ pc' = "merchant"
    /\ UNCHANGED <<StaticVars, queue, mi, planq>>

MerchantDetail ==
    /\ script = "static" /\ pc = "merchant"
    /\ FetchAndSave(MerchantUrl(MERCHANT_IDS[mi]), MerchantFile(MERCHANT_IDS[mi]))
    /\ failedIds' = IF Truthy(data') THEN failedIds ELSE failedIds \cup {MERCHANT_IDS[mi]}
    /\ pc' = "monthly"
    /\ UNCHANGED <<script, exit, runs, tx_ids, existing, missing, success, failed,
                   atStart, prev, queue, mi, planq, staticRuns>>

MerchantMonthly ==
    /\ script = "static" /\ pc = "monthly"
    /\ FetchAndSave(SubUrl(MERCHANT_IDS[mi], "monthly"), SubFile(MERCHANT_IDS[mi], "monthly"))
    /\ pc' = "plans"
    /\ UNCHANGED <<StaticVars, queue, mi, planq>>

\* the plans list; a truthy answer is saved, measured with len() and iterated
MerchantPlans ==
    /\ script = "static" /\ pc = "plans"
    /\ FetchAndSave(SubUrl(MERCHANT_IDS[mi], "plans"), SubFile(MERCHANT_IDS[mi], "plans"))
    /\ IF ~Truthy(data')
       THEN pc' = "stability" /\ planq' = <<>> /\ UNCHANGED exit
       ELSE IF LenRaises(data')
       THEN pc' = "idle" /\ exit' = "crash" /\ planq' = <<>>
       ELSE /\ planq' = Iterate(data')
            /\ pc' = "plan"
            /\ UNCHANGED exit
    /\ UNCHANGED <<script, runs, tx_ids, existing, missing, success, failed,
                   atStart, failedIds, prev, queue, mi, staticRuns>>

\* one turn of `for plan in data`
PlanDetail ==
    /\ script = "static" /\ pc = "plan"
    /\ LET plan == Head(planq)
           after == IF Len(planq) = 1 THEN "stability" ELSE "plan"
       IN IF GetRaises(plan) \/ (KeyTruthy(plan) /\ QuoteRaises(plan))
          THEN /\ pc' = "idle" /\ exit' = "crash"
               /\ UNCHANGED <<files, planq, requests, written, data, resp, allOk>>
          ELSE /\ IF KeyTruthy(plan)
                  THEN FetchAndSave(PlanUrl(MERCHANT_IDS[mi], plan.key), PlanFile(plan.key))
                  ELSE UNCHANGED <<files, requests, written, data, resp, allOk>>
               /\ planq' = Tail(planq)
               /\ pc' = after
               /\ UNCHANGED exit
    /\ UNCHANGED <<script, runs, tx_ids, existing, missing, success, failed,
                   atStart, failedIds, prev, queue, mi, staticRuns>>

MerchantStability ==
    /\ script = "static" /\ pc = "stability"
    /\ FetchAndSave(SubUrl(MERCHANT_IDS[mi], "stability"), SubFile(MERCHANT_IDS[mi], "stability"))
    /\ IF mi < Len(MERCHANT_IDS)
       THEN mi' = mi + 1 /\ pc' = "merchant"
       ELSE mi' = mi /\ pc' = "tx"
    /\ UNCHANGED <<StaticVars, queue, planq>>

StaticTx ==
    /\ script = "static" /\ pc = "tx"
    /\ FetchAndSave(TxUrl(Head(queue)), TxFile(Head(queue)))
    /\ failedIds' = IF Truthy(data') THEN failedIds ELSE failedIds \cup {Head(queue)}
    /\ pc' = "why"
    /\ UNCHANGED <<script, exit, runs, tx_ids, existing, missing, success, failed,
                   atStart, prev, queue, mi, planq, staticRuns>>

StaticWhy ==
    /\ script = "static" /\ pc = "why"
    /\ FetchAndSave(WhyUrl(Head(queue)), WhyFile(Head(queue)))
    /\ queue' = Tail(queue)
    /\ pc' = IF queue' = <<>> THEN "complete" ELSE "tx"
    /\ UNCHANGED <<StaticVars, mi, planq>>

StaticComplete ==
    /\ script = "static" /\ pc = "complete"
    /\ pc' = "idle" /\ exit' = "ok"
    /\ UNCHANGED <<files, script, runs, tx_ids, existing, missing, queue, data, resp,
                   success, failed, mi, planq, requests, written, atStart,
                   failedIds, prev, allOk, staticRuns>>

NextStatic ==
    \/ StartStatic
    \/ ExtractMerchants
    \/ MerchantDetail
    \/ MerchantMonthly
    \/ MerchantPlans
    \/ PlanDetail
    \/ MerchantStability
    \/ StaticTx
    \/ StaticWhy
    \/ StaticComplete

InitEmpty == Idle(<<>>)

SpecStatic == InitEmpty /\ [][NextStatic]_vars

NextAll == Next \/ NextStatic

SpecAll == Init /\ [][NextAll]_vars

-----------------------------------------------------------------------------
(* The scan alone, over a family of data directories *)

UpperId == "DD129486-0B41-4B60-B023-B84834EB88D1"

\* files a data directory may hold when the scan runs
ScanCandidates ==
    << <<File(<<>>, <<"merchants">>, ".json"),
         json_dump(MerchantsList)>>,
       <<File(<<"merchants">>, <<"30">>, ".json"),
         Text("binary", Dict(1, <<Member("transaction_id", T3)>>))>>,
       <<File(<<"plans", "details">>, <<"m", "_", "30", "_", "transactions">>, ".json"),
         json_dump(Dict(2, <<Member("transaction_id", T3)>>))>>,
       <<File(<<"monthly">>, <<"30">>, ".json"),
         json_dump(Dict(2, <<Member("transaction_id", UpperId), Member("id", T3)>>))>>,
       <<File(<<"stability">>, <<"30">>, ".txt"),
         json_dump(Dict(1, <<Member("transaction_id", T3)>>))>>,
       <<TxFile(T1),
         json_dump(Dict(3, <<Member("transaction_id", T1), Member("transaction_id", T3)>>))>>,
       <<WhyFile(T2),
         json_dump(Dict(2, <<Member("transaction_id", T2)>>))>> >>

ScanDir(I) ==
    [p \in {ScanCandidates[i][1] : i \in I} |->
        (CHOOSE c \in {ScanCandidates[i] : i \in I} : c[1] = p)[2]]

InitScan == \E I \in SUBSET (DOMAIN ScanCandidates) : Idle(ScanDir(I))

SpecScan == InitScan /\ [][StartDiscovery]_vars

-----------------------------------------------------------------------------
(* The plan loop alone, over a family of plan keys *)

\* units a plan key of the model is made of
KeyUnits == {"m", "30", ":", "/", "_", "%", " "}

\* units in a plan key
MaxKeyLen == 2

PlanKeys == UNION {[1..n -> KeyUnits] : n \in 0..MaxKeyLen}

\* a static run from an empty tree that has just saved the plan list of the
\* first merchant, the merchant's detail and monthly requests having failed
InPlanLoop(k) ==
    LET m == MERCHANT_IDS[1]
        plans == List(<<PlanEntry(k)>>, <<>>)
    IN /\ files = save_json(<<>>, SubFile(m, "plans"), plans)
       /\ script = "static" /\ pc = "plan" /\ exit = "none" /\ runs = 1
       /\ tx_ids = {} /\ existing = {} /\ missing = {} /\ queue = TRANSACTION_IDS
       /\ data = plans /\ resp = Curl(0, 200, Text("compact", plans))
       /\ success = 0 /\ failed = 0
       /\ mi = 1 /\ planq = Iterate(plans)
       /\ requests = <<MerchantsUrl, MerchantUrl(m), SubUrl(m, "monthly"), SubUrl(m, "plans")>>
       /\ written = <<>> /\ atStart = <<>> /\ failedIds = {m}
       /\ prev = Summary("none", "none", {}) /\ allOk = FALSE /\ staticRuns = 1

InitPlans == \E k \in PlanKeys : InPlanLoop(k)

SpecPlans == InitPlans /\ [][PlanDetail]_vars

-----------------------------------------------------------------------------
(* Properties *)

\* the stems of the *.json files directly in TX_DIR when the run started
StemsAtStart == {JoinStr(p.stem) : p \in {q \in DOMAIN atStart : q.dir = TX_DIR /\ q.ext = ".json"}}

\* the identifier a transaction URL names
UrlId(url) == url[2][1]

\* C1: in a discovery run the work set is the discovered set (what the scan of
\* the directory gave) minus the stems of the *.json files that were in TX_DIR
\* when the run started; every request of the run is for an identifier of the
\* work set, none for an identifier whose transaction file existed at the
\* start, and an empty work set means no request
C1_WorkSet ==
    script = "discovery" =>
        /\ tx_ids = find_all_transaction_ids(atStart)
        /\ missing = tx_ids \ StemsAtStart
        /\ \A i \in DOMAIN requests :
              /\ UrlId(requests[i]) \in missing
              /\ TxFile(UrlId(requests[i])) \notin DOMAIN atStart
        /\ (missing = {} => requests = <<>>)

\* a discovery run that found one discovered identifier extracted, another one
\* missing, and has requested something
C1_Witness ==
    /\ script = "discovery"
    /\ StemsAtStart \cap tx_ids # {}
    /\ missing # {}
    /\ requests # <<>>

\* C2: in a discovery run an identifier whose primary fetch failed gets no why
\* request and no why artifact, and a why artifact is written only after the
\* transaction artifact of the same identifier was written in the same run
C2_WhyOnlyAfterPrimary ==
    script = "discovery" =>
        /\ \A id \in failedIds :
              /\ \A i \in DOMAIN requests : requests[i] # WhyUrl(id)
              /\ \A i \in DOMAIN written : written[i] # WhyFile(id)
        /\ \A i \in DOMAIN written :
              written[i].dir = WHY_DIR =>
                  \E j \in 1..(i - 1) : written[j] = TxFile(written[i].stem[1])

\* a discovery run in which one primary fetch failed and one why artifact was written
C2_Witness ==
    /\ script = "discovery"
    /\ failedIds # {}
    /\ \E i \in DOMAIN written : written[i].dir = WHY_DIR

\* a discovery run that directly follows a discovery run that ran to its summary
SecondRun == script = "discovery" /\ runs >= 2 /\ prev.kind = "discovery" /\ prev.exit = "ok"

\* C4, as claimed: a discovery run that follows a complete discovery run
\* has an empty work set and requests nothing, whatever the first run's
\* fetches gave
C4_SecondRunIdle == SecondRun => (missing = {} /\ requests = <<>>)

\* C4, amended: the work set of a discovery run that follows a complete
\* discovery run is the set of identifiers whose primary fetch failed in that
\* run, its requests are for those identifiers only, and it requests nothing
\* when no primary fetch of the first run failed
C4_SecondRunRetriesFailed ==
    SecondRun =>
        /\ missing = prev.failed
        /\ \A i \in DOMAIN requests : UrlId(requests[i]) \in prev.failed
        /\ (prev.failed = {} => requests = <<>>)

\* a second run that is retrying what the first one failed to fetch
C4_Witness == SecondRun /\ prev.failed # {} /\ requests # <<>>

\* C5: fetch_json gives None whenever curl failed, the status is not 2xx or the
\* body is not JSON
C5_NonSuccessIsNone ==
    resp # NoResp =>
        ((resp.rc # 0 \/ resp.status \notin 200..299 \/ ~JsonDecodable(resp.stdout))
            => data = None)

\* the artifacts of an identifier are both there, with the API's documents
Complete(id) ==
    /\ TxFile(id) \in DOMAIN files /\ files[TxFile(id)] = json_dump(TxDoc(id))
    /\ WhyFile(id) \in DOMAIN files /\ files[WhyFile(id)] = json_dump(WhyDoc(id))

\* C7: a discovery run killed on a fresh transactions directory, followed by a
\* discovery run to its summary, the API answering every request with its
\* document, leaves the complete artifacts of every discovered identifier, as
\* one uninterrupted run does
C7_ResumeCompletes ==
    (/\ script = "discovery" /\ pc = "idle" /\ exit = "ok" /\ runs = 2
     /\ prev.kind = "discovery" /\ prev.exit = "killed" /\ allOk)
        => \A id \in tx_ids : Complete(id)

\* the identifier or merchant a URL names
Subject(url) == url[2][1]

\* C3: in a static run no sub-resource (why, monthly, plans, stability) is
\* requested for an identifier whose primary fetch failed and, the output tree
\* having been empty, no why artifact exists for it
C3_SubOnlyAfterPrimary ==
    (script = "static" /\ atStart = <<>>) =>
        \A id \in failedIds :
            /\ \A i \in DOMAIN requests :
                  ~(Len(requests[i]) >= 3 /\ Subject(requests[i]) = id)
            /\ WhyFile(id) \notin DOMAIN files

\* how often a URL occurs in the requests of the run
Count(url) == Cardinality({i \in DOMAIN requests : requests[i] = url})

\* C6: a static run that has ended has reached its summary, having requested
\* every listed merchant and every listed transaction exactly once
C6_StaticReachesSummary ==
    (script = "static" /\ pc = "idle") =>
        /\ exit = "ok"
        /\ \A i \in DOMAIN MERCHANT_IDS : Count(MerchantUrl(MERCHANT_IDS[i])) = 1
        /\ \A i \in DOMAIN TRANSACTION_IDS : Count(TxUrl(TRANSACTION_IDS[i])) = 1

\* C8: a discovery run writes to no path at which a file existed when it started
C8_WriteOnce ==
    script = "discovery" => \A i \in DOMAIN written : written[i] \notin DOMAIN atStart

\* the subtree test the claim describes: the file lies under TX_DIR
UnderTxDir(p) == Len(p.dir) >= 1 /\ p.dir[1] = "transactions"

\* the distinct matches of the readable *.json files outside the TX_DIR subtree
MatchesOutsideTxDir(fs) ==
    UNION {Range(FindAll(fs[p])) :
             p \in {q \in DOMAIN fs : q.ext = ".json" /\ ~UnderTxDir(q) /\ ~ReadRaises(fs[q])}}

\* C9: the scan returns the distinct matches of all readable *.json files that
\* are not inside the transactions subtree
C9_ScanIsExact == script = "discovery" => tx_ids = MatchesOutsideTxDir(atStart)

\* the character two hex digits stand for
CharOf(h) == CASE h = "3A" -> ":" [] h = "2F" -> "/" [] h = "25" -> "%" [] h = "20" -> " "
               [] OTHER -> "?"

RECURSIVE PercentDecode(_)
\* percent-decoding of a URL path segment
PercentDecode(s) ==
    IF s = <<>> THEN <<>>
    ELSE IF Head(s) = "%" /\ Len(s) >= 2
         THEN <<CharOf(s[2])>> \o PercentDecode(Tail(Tail(s)))
         ELSE <<Head(s)>> \o PercentDecode(Tail(s))

\* a segment that is the percent-encoded form of k: it decodes to k and leaves
\* no reserved character, in particular no slash, standing for itself
IsPercentEncoded(seg, k) ==
    /\ PercentDecode(seg) = k
    /\ \A i \in DOMAIN seg : seg[i] \in {":", "/", " "} => FALSE
    /\ \A i \in DOMAIN seg : seg[i] = "%" => (i < Len(seg) /\ seg[i + 1] \in {"3A", "2F", "25", "20"})

\* a file name that is k with every colon and slash replaced by an underscore
IsSafeName(stem, k) ==
    /\ Len(stem) = Len(k)
    /\ \A i \in DOMAIN k : stem[i] = (IF k[i] \in {":", "/"} THEN "_" ELSE k[i])

\* a turn of the plan loop on an entry with a non-empty plan key k requests
\* /merchants/{id}/plans/{segment} with the segment the percent-encoded k and,
\* when the fetch succeeds, writes exactly one file, plans/details/{name}.json,
\* with the name k with colons and slashes replaced by underscores
C10_PlanStep ==
    (/\ pc = "plan" /\ Head(planq).type = "dict" /\ Head(planq).key_type = "str"
     /\ Head(planq).key # <<>> /\ planq' = Tail(planq))
        => LET k == Head(planq).key
               url == requests'[Len(requests')]
           IN /\ Len(requests') = Len(requests) + 1
              /\ Len(url) = 4
              /\ SubSeq(url, 1, 3) = <<<<"merchants">>, <<MERCHANT_IDS[mi]>>, <<"plans">>>>
              /\ IsPercentEncoded(url[4], k)
              /\ Truthy(data') =>
                    \E p \in DOMAIN files' :
                       /\ p.dir = <<"plans", "details">> /\ p.ext = ".json"
                       /\ IsSafeName(p.stem, k)
                       /\ files'[p] = json_dump(data')
                       /\ \A q \in DOMAIN files' \ {p} : q \in DOMAIN files /\ files'[q] = files[q]
                       /\ \A q \in DOMAIN files : q \in DOMAIN files'
              /\ JoinStr(PlanFile(PlanKey1).stem) \o PlanFile(PlanKey1).ext = "m_30_plan_v1.json"
              /\ JoinStr(PlanUrl("30", PlanKey1)[4]) = "m%3A30%3Aplan%2Fv1"

\* C10: every turn of the plan loop on an entry with a non-empty plan key
\* requests the percent-encoded key as the last path segment, no character
\* left as a path separator, and on success writes the file named by the key
\* with every colon and slash replaced by an underscore, plus .json; the key
\* m:30:plan/v1 gives m_30_plan_v1.json
C10_PlanKeyNaming == [][C10_PlanStep]_vars

\* a plan detail saved for a key that holds a colon or a slash
C10_Witness ==
    /\ script = "static" /\ pc = "stability" /\ Truthy(data)
    /\ Len(requests[Len(requests)]) = 4
    /\ \E i \in DOMAIN requests[Len(requests)][4] : requests[Len(requests)][4][i] = "2F"
    /\ \E p \in DOMAIN files : p.dir = <<"plans", "details">>

====
